---------------------------- MODULE Spec2Model ----------------------------
(***************************************************************************)
(* A model of scripts/generate-test-dump.py, the generator of mysqldump-   *)
(* format benchmark files: the schema catalog, the value synthesizer       *)
(* (generate_row_value), the string escaping (escape_sql), the batched     *)
(* writer (write_table_data) and the driver (generate_dump).               *)
(*                                                                         *)
(* Python strings the code inspects (column names, type declarations,      *)
(* escaped values) are sequences of one-character strings, so that `in`,   *)
(* endswith, lower, replace, split and strip are computed character by     *)
(* character.  The random source is an input: every draw ranges over a     *)
(* bounded set of outcomes.                                                *)
(***************************************************************************)
EXTENDS Integers, Sequences, FiniteSets, TLC

(***************************************************************************)
(* Bounds of the model.                                                    *)
(***************************************************************************)
\* random.randint(a, b) and random.uniform draw one of MaxDraw + 1 evenly
\* spaced outcomes of the range, both ends included
MaxDraw == 2
\* generate_dump is run for target_size_mb in 0 .. MaxSizeMb
MaxSizeMb == 1
\* the size computation alone is run for target_size_mb in 0 .. MaxSizeArg
MaxSizeArg == 150
\* write_table_data alone is run for num_rows in 0 .. MaxRows ...
MaxRows == 5
\* ... with the table's insert_batch_size, or one in 1 .. MaxBatch
MaxBatch == 2
\* ... and for the 130 rows of the documented example (batches 50, 50, 30)
ExampleRows == 130
\* generate_row_value alone is run for row_id in 1 .. MaxRowId
MaxRowId == 9
\* escape_sql alone is run on the strings of at most MaxStrLen characters
MaxStrLen == 3

(***************************************************************************)
(* Python string operations on sequences of characters.                    *)
(***************************************************************************)
Max(a, b) == IF a >= b THEN a ELSE b
Min(a, b) == IF a <= b THEN a ELSE b

\* s[p : p + len(sub)] == sub
IsAt(s, sub, p) ==
    /\ p >= 1
    /\ p + Len(sub) - 1 <= Len(s)
    /\ \A x \in 1..Len(sub) : s[p + x - 1] = sub[x]

\* sub in s
Contains(s, sub) == \E p \in 1..(Len(s) - Len(sub) + 1) : IsAt(s, sub, p)

\* s.endswith(suf)
EndsWith(s, suf) == IsAt(s, suf, Len(s) - Len(suf) + 1)

UpperChars ==
    <<"A","B","C","D","E","F","G","H","I","J","K","L","M",
      "N","O","P","Q","R","S","T","U","V","W","X","Y","Z">>
LowerChars ==
    <<"a","b","c","d","e","f","g","h","i","j","k","l","m",
      "n","o","p","q","r","s","t","u","v","w","x","y","z">>

LowerChar(c) ==
    IF \E x \in 1..Len(UpperChars) : UpperChars[x] = c
    THEN LowerChars[CHOOSE x \in 1..Len(UpperChars) : UpperChars[x] = c]
    ELSE c

\* s.lower()
Lower(s) == [x \in 1..Len(s) |-> LowerChar(s[x])]

\* The least element of a non-empty set of integers.
Least(S) == CHOOSE x \in S : \A y \in S : x <= y

\* s.replace(old, new) for a one-character old
RECURSIVE Replace(_, _, _)
Replace(s, old, new) ==
    IF s = <<>> THEN <<>>
    ELSE (IF Head(s) = old THEN new ELSE <<Head(s)>>) \o Replace(Tail(s), old, new)

\* s.split(sep) for a one-character sep: the pieces between the separators
RECURSIVE Split(_, _)
Split(s, sep) ==
    IF \A x \in 1..Len(s) : s[x] # sep THEN <<s>>
    ELSE LET q == Least({x \in 1..Len(s) : s[x] = sep})
         IN  <<SubSeq(s, 1, q - 1)>> \o Split(SubSeq(s, q + 1, Len(s)), sep)

\* s.strip(chars): the leading and trailing characters of the set removed
Strip(s, chars) ==
    LET keep == {x \in 1..Len(s) : s[x] \notin chars}
    IN  IF keep = {} THEN <<>>
        ELSE SubSeq(s, Least(keep), CHOOSE x \in keep : \A j \in keep : j <= x)

\* re.search(r"enum\(([^)]+)\)", s): group 1 of the leftmost match, <<>> when
\* there is none
EnumGroup(s) ==
    LET prefix == <<"e","n","u","m","(">>
        Close(a) == {q \in a..Len(s) : s[q] = ")"}
        starts == {p \in 1..Len(s) :
                     /\ IsAt(s, prefix, p)
                     /\ p + 5 <= Len(s)
                     /\ s[p + 5] # ")"
                     /\ Close(p + 6) # {}}
    IN  IF starts = {} THEN <<>>
        ELSE SubSeq(s, Least(starts) + 5, Least(Close(Least(starts) + 6)) - 1)

(***************************************************************************)
(* The schema catalog.                                                     *)
(***************************************************************************)
TABLE_DEFINITIONS ==
  <<
    [ name |-> "users",
      columns |-> <<
        (* id : bigint unsigned NOT NULL AUTO_INCREMENT *)
        << <<"i","d">>,
           <<"b","i","g","i","n","t"," ","u","n","s","i","g","n","e","d"," ","N","O","T"," ","N","U","L","L"," ","A","U","T","O","_","I","N","C","R","E","M","E","N","T">> >>,
        (* email : varchar(255) NOT NULL *)
        << <<"e","m","a","i","l">>,
           <<"v","a","r","c","h","a","r","(","2","5","5",")"," ","N","O","T"," ","N","U","L","L">> >>,
        (* name : varchar(100) DEFAULT NULL *)
        << <<"n","a","m","e">>,
           <<"v","a","r","c","h","a","r","(","1","0","0",")"," ","D","E","F","A","U","L","T"," ","N","U","L","L">> >>,
        (* password_hash : varchar(255) NOT NULL *)
        << <<"p","a","s","s","w","o","r","d","_","h","a","s","h">>,
           <<"v","a","r","c","h","a","r","(","2","5","5",")"," ","N","O","T"," ","N","U","L","L">> >>,
        (* avatar_url : varchar(500) DEFAULT NULL *)
        << <<"a","v","a","t","a","r","_","u","r","l">>,
           <<"v","a","r","c","h","a","r","(","5","0","0",")"," ","D","E","F","A","U","L","T"," ","N","U","L","L">> >>,
        (* bio : text *)
        << <<"b","i","o">>,
           <<"t","e","x","t">> >>,
        (* created_at : datetime DEFAULT NULL *)
        << <<"c","r","e","a","t","e","d","_","a","t">>,
           <<"d","a","t","e","t","i","m","e"," ","D","E","F","A","U","L","T"," ","N","U","L","L">> >>,
        (* updated_at : datetime DEFAULT NULL *)
        << <<"u","p","d","a","t","e","d","_","a","t">>,
           <<"d","a","t","e","t","i","m","e"," ","D","E","F","A","U","L","T"," ","N","U","L","L">> >>
      >>,
      primary_key |-> <<"i","d">>,
      insert_batch_size |-> 50 ],
    [ name |-> "posts",
      columns |-> <<
        (* id : bigint unsigned NOT NULL AUTO_INCREMENT *)
        << <<"i","d">>,
           <<"b","i","g","i","n","t"," ","u","n","s","i","g","n","e","d"," ","N","O","T"," ","N","U","L","L"," ","A","U","T","O","_","I","N","C","R","E","M","E","N","T">> >>,
        (* user_id : bigint unsigned NOT NULL *)
        << <<"u","s","e","r","_","i","d">>,
           <<"b","i","g","i","n","t"," ","u","n","s","i","g","n","e","d"," ","N","O","T"," ","N","U","L","L">> >>,
        (* title : varchar(255) NOT NULL *)
        << <<"t","i","t","l","e">>,
           <<"v","a","r","c","h","a","r","(","2","5","5",")"," ","N","O","T"," ","N","U","L","L">> >>,
        (* slug : varchar(300) NOT NULL *)
        << <<"s","l","u","g">>,
           <<"v","a","r","c","h","a","r","(","3","0","0",")"," ","N","O","T"," ","N","U","L","L">> >>,
        (* content : longtext *)
        << <<"c","o","n","t","e","n","t">>,
           <<"l","o","n","g","t","e","x","t">> >>,
        (* excerpt : text *)
        << <<"e","x","c","e","r","p","t">>,
           <<"t","e","x","t">> >>,
        (* status : enum('draft','published','archived') DEFAULT 'draft' *)
        << <<"s","t","a","t","u","s">>,
           <<"e","n","u","m","(","'","d","r","a","f","t","'",",","'","p","u","b","l","i","s","h","e","d","'",",","'","a","r","c","h","i","v","e","d","'",")"," ","D","E","F","A","U","L","T"," ","'","d","r","a","f","t","'">> >>,
        (* published_at : datetime DEFAULT NULL *)
        << <<"p","u","b","l","i","s","h","e","d","_","a","t">>,
           <<"d","a","t","e","t","i","m","e"," ","D","E","F","A","U","L","T"," ","N","U","L","L">> >>,
        (* created_at : datetime DEFAULT NULL *)
        << <<"c","r","e","a","t","e","d","_","a","t">>,
           <<"d","a","t","e","t","i","m","e"," ","D","E","F","A","U","L","T"," ","N","U","L","L">> >>,
        (* updated_at : datetime DEFAULT NULL *)
        << <<"u","p","d","a","t","e","d","_","a","t">>,
           <<"d","a","t","e","t","i","m","e"," ","D","E","F","A","U","L","T"," ","N","U","L","L">> >>
      >>,
      primary_key |-> <<"i","d">>,
      insert_batch_size |-> 20 ],
    [ name |-> "comments",
      columns |-> <<
        (* id : bigint unsigned NOT NULL AUTO_INCREMENT *)
        << <<"i","d">>,
           <<"b","i","g","i","n","t"," ","u","n","s","i","g","n","e","d"," ","N","O","T"," ","N","U","L","L"," ","A","U","T","O","_","I","N","C","R","E","M","E","N","T">> >>,
        (* post_id : bigint unsigned NOT NULL *)
        << <<"p","o","s","t","_","i","d">>,
           <<"b","i","g","i","n","t"," ","u","n","s","i","g","n","e","d"," ","N","O","T"," ","N","U","L","L">> >>,
        (* user_id : bigint unsigned DEFAULT NULL *)
        << <<"u","s","e","r","_","i","d">>,
           <<"b","i","g","i","n","t"," ","u","n","s","i","g","n","e","d"," ","D","E","F","A","U","L","T"," ","N","U","L","L">> >>,
        (* parent_id : bigint unsigned DEFAULT NULL *)
        << <<"p","a","r","e","n","t","_","i","d">>,
           <<"b","i","g","i","n","t"," ","u","n","s","i","g","n","e","d"," ","D","E","F","A","U","L","T"," ","N","U","L","L">> >>,
        (* body : text NOT NULL *)
        << <<"b","o","d","y">>,
           <<"t","e","x","t"," ","N","O","T"," ","N","U","L","L">> >>,
        (* author_name : varchar(100) DEFAULT NULL *)
        << <<"a","u","t","h","o","r","_","n","a","m","e">>,
           <<"v","a","r","c","h","a","r","(","1","0","0",")"," ","D","E","F","A","U","L","T"," ","N","U","L","L">> >>,
        (* author_email : varchar(255) DEFAULT NULL *)
        << <<"a","u","t","h","o","r","_","e","m","a","i","l">>,
           <<"v","a","r","c","h","a","r","(","2","5","5",")"," ","D","E","F","A","U","L","T"," ","N","U","L","L">> >>,
        (* is_approved : tinyint(1) DEFAULT '0' *)
        << <<"i","s","_","a","p","p","r","o","v","e","d">>,
           <<"t","i","n","y","i","n","t","(","1",")"," ","D","E","F","A","U","L","T"," ","'","0","'">> >>,
        (* created_at : datetime DEFAULT NULL *)
        << <<"c","r","e","a","t","e","d","_","a","t">>,
           <<"d","a","t","e","t","i","m","e"," ","D","E","F","A","U","L","T"," ","N","U","L","L">> >>
      >>,
      primary_key |-> <<"i","d">>,
      insert_batch_size |-> 100 ],
    [ name |-> "products",
      columns |-> <<
        (* id : bigint unsigned NOT NULL AUTO_INCREMENT *)
        << <<"i","d">>,
           <<"b","i","g","i","n","t"," ","u","n","s","i","g","n","e","d"," ","N","O","T"," ","N","U","L","L"," ","A","U","T","O","_","I","N","C","R","E","M","E","N","T">> >>,
        (* sku : varchar(50) NOT NULL *)
        << <<"s","k","u">>,
           <<"v","a","r","c","h","a","r","(","5","0",")"," ","N","O","T"," ","N","U","L","L">> >>,
        (* name : varchar(255) NOT NULL *)
        << <<"n","a","m","e">>,
           <<"v","a","r","c","h","a","r","(","2","5","5",")"," ","N","O","T"," ","N","U","L","L">> >>,
        (* description : text *)
        << <<"d","e","s","c","r","i","p","t","i","o","n">>,
           <<"t","e","x","t">> >>,
        (* price : decimal(10,2) NOT NULL *)
        << <<"p","r","i","c","e">>,
           <<"d","e","c","i","m","a","l","(","1","0",",","2",")"," ","N","O","T"," ","N","U","L","L">> >>,
        (* cost : decimal(10,2) DEFAULT NULL *)
        << <<"c","o","s","t">>,
           <<"d","e","c","i","m","a","l","(","1","0",",","2",")"," ","D","E","F","A","U","L","T"," ","N","U","L","L">> >>,
        (* quantity : int DEFAULT '0' *)
        << <<"q","u","a","n","t","i","t","y">>,
           <<"i","n","t"," ","D","E","F","A","U","L","T"," ","'","0","'">> >>,
        (* weight : decimal(8,3) DEFAULT NULL *)
        << <<"w","e","i","g","h","t">>,
           <<"d","e","c","i","m","a","l","(","8",",","3",")"," ","D","E","F","A","U","L","T"," ","N","U","L","L">> >>,
        (* is_active : tinyint(1) DEFAULT '1' *)
        << <<"i","s","_","a","c","t","i","v","e">>,
           <<"t","i","n","y","i","n","t","(","1",")"," ","D","E","F","A","U","L","T"," ","'","1","'">> >>,
        (* metadata : json DEFAULT NULL *)
        << <<"m","e","t","a","d","a","t","a">>,
           <<"j","s","o","n"," ","D","E","F","A","U","L","T"," ","N","U","L","L">> >>,
        (* created_at : datetime DEFAULT NULL *)
        << <<"c","r","e","a","t","e","d","_","a","t">>,
           <<"d","a","t","e","t","i","m","e"," ","D","E","F","A","U","L","T"," ","N","U","L","L">> >>,
        (* updated_at : datetime DEFAULT NULL *)
        << <<"u","p","d","a","t","e","d","_","a","t">>,
           <<"d","a","t","e","t","i","m","e"," ","D","E","F","A","U","L","T"," ","N","U","L","L">> >>
      >>,
      primary_key |-> <<"i","d">>,
      insert_batch_size |-> 30 ],
    [ name |-> "orders",
      columns |-> <<
        (* id : bigint unsigned NOT NULL AUTO_INCREMENT *)
        << <<"i","d">>,
           <<"b","i","g","i","n","t"," ","u","n","s","i","g","n","e","d"," ","N","O","T"," ","N","U","L","L"," ","A","U","T","O","_","I","N","C","R","E","M","E","N","T">> >>,
        (* user_id : bigint unsigned NOT NULL *)
        << <<"u","s","e","r","_","i","d">>,
           <<"b","i","g","i","n","t"," ","u","n","s","i","g","n","e","d"," ","N","O","T"," ","N","U","L","L">> >>,
        (* order_number : varchar(50) NOT NULL *)
        << <<"o","r","d","e","r","_","n","u","m","b","e","r">>,
           <<"v","a","r","c","h","a","r","(","5","0",")"," ","N","O","T"," ","N","U","L","L">> >>,
        (* status : enum('pending','processing','shipped','delivered','cancelled') DEFAULT 'pending' *)
        << <<"s","t","a","t","u","s">>,
           <<"e","n","u","m","(","'","p","e","n","d","i","n","g","'",",","'","p","r","o","c","e","s","s","i","n","g","'",",","'","s","h","i","p","p","e","d","'",",","'","d","e","l","i","v","e","r","e","d","'",",","'","c","a","n","c","e","l","l","e","d","'",")"," ","D","E","F","A","U","L","T"," ","'","p","e","n","d","i","n","g","'">> >>,
        (* subtotal : decimal(12,2) NOT NULL *)
        << <<"s","u","b","t","o","t","a","l">>,
           <<"d","e","c","i","m","a","l","(","1","2",",","2",")"," ","N","O","T"," ","N","U","L","L">> >>,
        (* tax : decimal(10,2) DEFAULT '0.00' *)
        << <<"t","a","x">>,
           <<"d","e","c","i","m","a","l","(","1","0",",","2",")"," ","D","E","F","A","U","L","T"," ","'","0",".","0","0","'">> >>,
        (* shipping : decimal(10,2) DEFAULT '0.00' *)
        << <<"s","h","i","p","p","i","n","g">>,
           <<"d","e","c","i","m","a","l","(","1","0",",","2",")"," ","D","E","F","A","U","L","T"," ","'","0",".","0","0","'">> >>,
        (* total : decimal(12,2) NOT NULL *)
        << <<"t","o","t","a","l">>,
           <<"d","e","c","i","m","a","l","(","1","2",",","2",")"," ","N","O","T"," ","N","U","L","L">> >>,
        (* currency : char(3) DEFAULT 'USD' *)
        << <<"c","u","r","r","e","n","c","y">>,
           <<"c","h","a","r","(","3",")"," ","D","E","F","A","U","L","T"," ","'","U","S","D","'">> >>,
        (* notes : text *)
        << <<"n","o","t","e","s">>,
           <<"t","e","x","t">> >>,
        (* shipped_at : datetime DEFAULT NULL *)
        << <<"s","h","i","p","p","e","d","_","a","t">>,
           <<"d","a","t","e","t","i","m","e"," ","D","E","F","A","U","L","T"," ","N","U","L","L">> >>,
        (* created_at : datetime DEFAULT NULL *)
        << <<"c","r","e","a","t","e","d","_","a","t">>,
           <<"d","a","t","e","t","i","m","e"," ","D","E","F","A","U","L","T"," ","N","U","L","L">> >>,
        (* updated_at : datetime DEFAULT NULL *)
        << <<"u","p","d","a","t","e","d","_","a","t">>,
           <<"d","a","t","e","t","i","m","e"," ","D","E","F","A","U","L","T"," ","N","U","L","L">> >>
      >>,
      primary_key |-> <<"i","d">>,
      insert_batch_size |-> 40 ],
    [ name |-> "order_items",
      columns |-> <<
        (* id : bigint unsigned NOT NULL AUTO_INCREMENT *)
        << <<"i","d">>,
           <<"b","i","g","i","n","t"," ","u","n","s","i","g","n","e","d"," ","N","O","T"," ","N","U","L","L"," ","A","U","T","O","_","I","N","C","R","E","M","E","N","T">> >>,
        (* order_id : bigint unsigned NOT NULL *)
        << <<"o","r","d","e","r","_","i","d">>,
           <<"b","i","g","i","n","t"," ","u","n","s","i","g","n","e","d"," ","N","O","T"," ","N","U","L","L">> >>,
        (* product_id : bigint unsigned NOT NULL *)
        << <<"p","r","o","d","u","c","t","_","i","d">>,
           <<"b","i","g","i","n","t"," ","u","n","s","i","g","n","e","d"," ","N","O","T"," ","N","U","L","L">> >>,
        (* quantity : int NOT NULL *)
        << <<"q","u","a","n","t","i","t","y">>,
           <<"i","n","t"," ","N","O","T"," ","N","U","L","L">> >>,
        (* unit_price : decimal(10,2) NOT NULL *)
        << <<"u","n","i","t","_","p","r","i","c","e">>,
           <<"d","e","c","i","m","a","l","(","1","0",",","2",")"," ","N","O","T"," ","N","U","L","L">> >>,
        (* total_price : decimal(12,2) NOT NULL *)
        << <<"t","o","t","a","l","_","p","r","i","c","e">>,
           <<"d","e","c","i","m","a","l","(","1","2",",","2",")"," ","N","O","T"," ","N","U","L","L">> >>,
        (* created_at : datetime DEFAULT NULL *)
        << <<"c","r","e","a","t","e","d","_","a","t">>,
           <<"d","a","t","e","t","i","m","e"," ","D","E","F","A","U","L","T"," ","N","U","L","L">> >>
      >>,
      primary_key |-> <<"i","d">>,
      insert_batch_size |-> 100 ],
    [ name |-> "sessions",
      columns |-> <<
        (* id : varchar(255) NOT NULL *)
        << <<"i","d">>,
           <<"v","a","r","c","h","a","r","(","2","5","5",")"," ","N","O","T"," ","N","U","L","L">> >>,
        (* user_id : bigint unsigned DEFAULT NULL *)
        << <<"u","s","e","r","_","i","d">>,
           <<"b","i","g","i","n","t"," ","u","n","s","i","g","n","e","d"," ","D","E","F","A","U","L","T"," ","N","U","L","L">> >>,
        (* ip_address : varchar(45) DEFAULT NULL *)
        << <<"i","p","_","a","d","d","r","e","s","s">>,
           <<"v","a","r","c","h","a","r","(","4","5",")"," ","D","E","F","A","U","L","T"," ","N","U","L","L">> >>,
        (* user_agent : text *)
        << <<"u","s","e","r","_","a","g","e","n","t">>,
           <<"t","e","x","t">> >>,
        (* payload : longtext NOT NULL *)
        << <<"p","a","y","l","o","a","d">>,
           <<"l","o","n","g","t","e","x","t"," ","N","O","T"," ","N","U","L","L">> >>,
        (* last_activity : int NOT NULL *)
        << <<"l","a","s","t","_","a","c","t","i","v","i","t","y">>,
           <<"i","n","t"," ","N","O","T"," ","N","U","L","L">> >>
      >>,
      primary_key |-> <<"i","d">>,
      insert_batch_size |-> 50 ],
    [ name |-> "activity_logs",
      columns |-> <<
        (* id : bigint unsigned NOT NULL AUTO_INCREMENT *)
        << <<"i","d">>,
           <<"b","i","g","i","n","t"," ","u","n","s","i","g","n","e","d"," ","N","O","T"," ","N","U","L","L"," ","A","U","T","O","_","I","N","C","R","E","M","E","N","T">> >>,
        (* log_name : varchar(100) DEFAULT NULL *)
        << <<"l","o","g","_","n","a","m","e">>,
           <<"v","a","r","c","h","a","r","(","1","0","0",")"," ","D","E","F","A","U","L","T"," ","N","U","L","L">> >>,
        (* description : text NOT NULL *)
        << <<"d","e","s","c","r","i","p","t","i","o","n">>,
           <<"t","e","x","t"," ","N","O","T"," ","N","U","L","L">> >>,
        (* subject_type : varchar(255) DEFAULT NULL *)
        << <<"s","u","b","j","e","c","t","_","t","y","p","e">>,
           <<"v","a","r","c","h","a","r","(","2","5","5",")"," ","D","E","F","A","U","L","T"," ","N","U","L","L">> >>,
        (* subject_id : bigint unsigned DEFAULT NULL *)
        << <<"s","u","b","j","e","c","t","_","i","d">>,
           <<"b","i","g","i","n","t"," ","u","n","s","i","g","n","e","d"," ","D","E","F","A","U","L","T"," ","N","U","L","L">> >>,
        (* causer_type : varchar(255) DEFAULT NULL *)
        << <<"c","a","u","s","e","r","_","t","y","p","e">>,
           <<"v","a","r","c","h","a","r","(","2","5","5",")"," ","D","E","F","A","U","L","T"," ","N","U","L","L">> >>,
        (* causer_id : bigint unsigned DEFAULT NULL *)
        << <<"c","a","u","s","e","r","_","i","d">>,
           <<"b","i","g","i","n","t"," ","u","n","s","i","g","n","e","d"," ","D","E","F","A","U","L","T"," ","N","U","L","L">> >>,
        (* properties : json DEFAULT NULL *)
        << <<"p","r","o","p","e","r","t","i","e","s">>,
           <<"j","s","o","n"," ","D","E","F","A","U","L","T"," ","N","U","L","L">> >>,
        (* created_at : datetime DEFAULT NULL *)
        << <<"c","r","e","a","t","e","d","_","a","t">>,
           <<"d","a","t","e","t","i","m","e"," ","D","E","F","A","U","L","T"," ","N","U","L","L">> >>
      >>,
      primary_key |-> <<"i","d">>,
      insert_batch_size |-> 80 ],
    [ name |-> "cache",
      columns |-> <<
        (* key : varchar(255) NOT NULL *)
        << <<"k","e","y">>,
           <<"v","a","r","c","h","a","r","(","2","5","5",")"," ","N","O","T"," ","N","U","L","L">> >>,
        (* value : mediumtext NOT NULL *)
        << <<"v","a","l","u","e">>,
           <<"m","e","d","i","u","m","t","e","x","t"," ","N","O","T"," ","N","U","L","L">> >>,
        (* expiration : int NOT NULL *)
        << <<"e","x","p","i","r","a","t","i","o","n">>,
           <<"i","n","t"," ","N","O","T"," ","N","U","L","L">> >>
      >>,
      primary_key |-> <<"k","e","y">>,
      insert_batch_size |-> 100 ],
    [ name |-> "media",
      columns |-> <<
        (* id : bigint unsigned NOT NULL AUTO_INCREMENT *)
        << <<"i","d">>,
           <<"b","i","g","i","n","t"," ","u","n","s","i","g","n","e","d"," ","N","O","T"," ","N","U","L","L"," ","A","U","T","O","_","I","N","C","R","E","M","E","N","T">> >>,
        (* model_type : varchar(255) NOT NULL *)
        << <<"m","o","d","e","l","_","t","y","p","e">>,
           <<"v","a","r","c","h","a","r","(","2","5","5",")"," ","N","O","T"," ","N","U","L","L">> >>,
        (* model_id : bigint unsigned NOT NULL *)
        << <<"m","o","d","e","l","_","i","d">>,
           <<"b","i","g","i","n","t"," ","u","n","s","i","g","n","e","d"," ","N","O","T"," ","N","U","L","L">> >>,
        (* collection_name : varchar(255) NOT NULL *)
        << <<"c","o","l","l","e","c","t","i","o","n","_","n","a","m","e">>,
           <<"v","a","r","c","h","a","r","(","2","5","5",")"," ","N","O","T"," ","N","U","L","L">> >>,
        (* name : varchar(255) NOT NULL *)
        << <<"n","a","m","e">>,
           <<"v","a","r","c","h","a","r","(","2","5","5",")"," ","N","O","T"," ","N","U","L","L">> >>,
        (* file_name : varchar(255) NOT NULL *)
        << <<"f","i","l","e","_","n","a","m","e">>,
           <<"v","a","r","c","h","a","r","(","2","5","5",")"," ","N","O","T"," ","N","U","L","L">> >>,
        (* mime_type : varchar(100) DEFAULT NULL *)
        << <<"m","i","m","e","_","t","y","p","e">>,
           <<"v","a","r","c","h","a","r","(","1","0","0",")"," ","D","E","F","A","U","L","T"," ","N","U","L","L">> >>,
        (* disk : varchar(50) DEFAULT 'public' *)
        << <<"d","i","s","k">>,
           <<"v","a","r","c","h","a","r","(","5","0",")"," ","D","E","F","A","U","L","T"," ","'","p","u","b","l","i","c","'">> >>,
        (* size : bigint unsigned DEFAULT NULL *)
        << <<"s","i","z","e">>,
           <<"b","i","g","i","n","t"," ","u","n","s","i","g","n","e","d"," ","D","E","F","A","U","L","T"," ","N","U","L","L">> >>,
        (* manipulations : json DEFAULT NULL *)
        << <<"m","a","n","i","p","u","l","a","t","i","o","n","s">>,
           <<"j","s","o","n"," ","D","E","F","A","U","L","T"," ","N","U","L","L">> >>,
        (* custom_properties : json DEFAULT NULL *)
        << <<"c","u","s","t","o","m","_","p","r","o","p","e","r","t","i","e","s">>,
           <<"j","s","o","n"," ","D","E","F","A","U","L","T"," ","N","U","L","L">> >>,
        (* responsive_images : json DEFAULT NULL *)
        << <<"r","e","s","p","o","n","s","i","v","e","_","i","m","a","g","e","s">>,
           <<"j","s","o","n"," ","D","E","F","A","U","L","T"," ","N","U","L","L">> >>,
        (* created_at : datetime DEFAULT NULL *)
        << <<"c","r","e","a","t","e","d","_","a","t">>,
           <<"d","a","t","e","t","i","m","e"," ","D","E","F","A","U","L","T"," ","N","U","L","L">> >>,
        (* updated_at : datetime DEFAULT NULL *)
        << <<"u","p","d","a","t","e","d","_","a","t">>,
           <<"d","a","t","e","t","i","m","e"," ","D","E","F","A","U","L","T"," ","N","U","L","L">> >>
      >>,
      primary_key |-> <<"i","d">>,
      insert_batch_size |-> 30 ]
  >>

\* len(TABLE_DEFINITIONS)
NumTables == Len(TABLE_DEFINITIONS)

(***************************************************************************)
(* Python values.  t is the type of the value ("none", "int", "float",     *)
(* "str"); n is the number of an int or the hundredths of a float rounded  *)
(* to two places; gen names the rule of generate_row_value that made the   *)
(* value; s holds the characters of a string the model computes with (an   *)
(* enum literal), and is empty for the strings the random text helpers     *)
(* make (random_email, random_text, random_string, ...): of those only the *)
(* rule is kept, the words and letters drawn are not.                      *)
(***************************************************************************)
None == [t |-> "none", n |-> 0, gen |-> "null", s |-> <<>>]
IntVal(n, gen) == [t |-> "int", n |-> n, gen |-> gen, s |-> <<>>]
FloatVal(h, gen) == [t |-> "float", n |-> h, gen |-> gen, s |-> <<>>]
StrVal(gen, s) == [t |-> "str", n |-> 0, gen |-> gen, s |-> s]

\* random.randint(a, b): MaxDraw + 1 outcomes spread over a .. b
RandInt(a, b) == {a + ((b - a) * u) \div MaxDraw : u \in 0..MaxDraw}

(***************************************************************************)
(* escape_sql                                                              *)
(***************************************************************************)
\* The replacements in another order: the backslash last.
escape_sql_backslash_last(s) ==
    Replace(Replace(Replace(Replace(s, "'", <<"\\","'">>),
                            "\n", <<"\\","n">>),
                    "\r", <<"\\","r">>),
            "\\", <<"\\","\\">>)

\* escape_sql(s) for a string s
escape_sql(s) ==
    Replace(Replace(Replace(Replace(s, "\\", <<"\\","\\">>),
                            "'", <<"\\","'">>),
                    "\n", <<"\\","n">>),
            "\r", <<"\\","r">>)

(***************************************************************************)
(* generate_row_value                                                      *)
(***************************************************************************)
\* The null rule taken for every type that mentions NULL.
Nullable_any_null(col_type) == Contains(col_type, <<"N","U","L","L">>)

\* "DEFAULT NULL" in col_type
Nullable(col_type) ==
    Contains(col_type, <<"D","E","F","A","U","L","T"," ","N","U","L","L">>)

\* The values kept with their quotes.
EnumValues_unstripped(type_lower) == Split(EnumGroup(type_lower), ",")

\* [v.strip("'\"") for v in match.group(1).split(",")], <<>> when the
\* regular expression does not match
EnumValues(type_lower) ==
    IF EnumGroup(type_lower) = <<>> THEN <<>>
    ELSE LET parts == Split(EnumGroup(type_lower), ",")
         IN  [x \in 1..Len(parts) |-> Strip(parts[x], {"'", "\""})]

\* The email rule tried before the foreign-key rule.
FirstNameRule_email_first(col_name, col_lower) ==
    IF Contains(col_lower, <<"e","m","a","i","l">>) THEN "email"
    ELSE IF EndsWith(col_name, <<"_","i","d">>) THEN "fk"
    ELSE "none"

\* The rules that follow the id rule and precede the name rules:
\* `if col_name.endswith("_id")`, then `if "email" in col_lower`
FirstNameRule(col_name, col_lower) ==
    IF EndsWith(col_name, <<"_","i","d">>) THEN "fk"
    ELSE IF Contains(col_lower, <<"e","m","a","i","l">>) THEN "email"
    ELSE "none"

\* The rule of generate_row_value that decides a column once the null draw
\* has not returned: the first whose condition holds, in the order of the
\* code, with the values the enum rule parses.
ColumnRule(col_name, col_type) ==
    LET col_lower == Lower(col_name)
        type_lower == Lower(col_type)
        Has(sub) == Contains(type_lower, sub)
        R(rule) == [rule |-> rule, values |-> <<>>]
    IN
    IF col_name = <<"i","d">> /\ Has(<<"a","u","t","o","_","i","n","c","r","e","m","e","n","t">>)
    THEN R("id")
    ELSE IF FirstNameRule(col_name, col_lower) # "none"
    THEN R(FirstNameRule(col_name, col_lower))
    ELSE IF col_lower \in {<<"n","a","m","e">>, <<"a","u","t","h","o","r","_","n","a","m","e">>}
    THEN R("name")
    ELSE IF col_lower = <<"f","i","r","s","t","_","n","a","m","e">> THEN R("first_name")
    ELSE IF col_lower = <<"l","a","s","t","_","n","a","m","e">> THEN R("last_name")
    ELSE IF Contains(col_lower, <<"u","r","l">>) THEN R("url")
    ELSE IF Contains(col_lower, <<"i","p">>) THEN R("ip")
    ELSE IF Has(<<"d","a","t","e","t","i","m","e">>) \/ EndsWith(col_lower, <<"_","a","t">>)
    THEN R("datetime")
    ELSE IF Has(<<"t","i","n","y","i","n","t">>) THEN R("tinyint")
    ELSE IF Has(<<"j","s","o","n">>) THEN R("json")
    ELSE IF Has(<<"d","e","c","i","m","a","l">>) THEN R("decimal")
    ELSE IF Has(<<"i","n","t">>) /\ ~Has(<<"b","i","g","i","n","t">>) THEN R("int")
    ELSE IF Has(<<"b","i","g","i","n","t">>) THEN R("bigint")
    ELSE IF Has(<<"e","n","u","m">>) /\ EnumValues(type_lower) # <<>>
    THEN [rule |-> "enum", values |-> EnumValues(type_lower)]
    ELSE IF Has(<<"l","o","n","g","t","e","x","t">>) THEN R("longtext")
    ELSE IF Has(<<"m","e","d","i","u","m","t","e","x","t">>) THEN R("mediumtext")
    ELSE IF Has(<<"t","e","x","t">>) THEN R("text")
    ELSE IF Has(<<"v","a","r","c","h","a","r">>)
    THEN IF col_lower \in {<<"t","i","t","l","e">>, <<"s","l","u","g">>} THEN R("title")
         ELSE IF col_lower = <<"s","k","u">> THEN R("sku")
         ELSE IF col_lower = <<"o","r","d","e","r","_","n","u","m","b","e","r">>
         THEN R("order_number")
         ELSE IF col_lower = <<"p","a","s","s","w","o","r","d","_","h","a","s","h">>
         THEN R("password_hash")
         ELSE IF col_lower = <<"u","s","e","r","_","a","g","e","n","t">>
         THEN R("user_agent")
         ELSE R("varchar")
    ELSE IF Has(<<"c","h","a","r">>) THEN R("char")
    ELSE R("fallback")

\* The upper end of the foreign-key draw taken from twice the row number.
FkUpper_double(row_id) == Max(1, row_id * 2)

\* max(1, row_id // 2)
FkUpper(row_id) == Max(1, row_id \div 2)

\* The values the rule r returns for row row_id, over the random draws.
RuleValues(r, row_id) ==
    CASE r.rule = "id" -> {IntVal(row_id, "id")}
      [] r.rule = "fk" -> {IntVal(v, "fk") : v \in RandInt(1, FkUpper(row_id))}
      [] r.rule = "tinyint" -> {IntVal(v, "tinyint") : v \in RandInt(0, 1)}
      [] r.rule = "decimal" -> {FloatVal(h, "decimal") : h \in RandInt(100, 99999)}
      [] r.rule = "int" -> {IntVal(v, "int") : v \in RandInt(1, 10000)}
      [] r.rule = "bigint" -> {IntVal(v, "bigint") : v \in RandInt(1, 1000000)}
      [] r.rule = "enum" ->
           {StrVal("enum", r.values[x]) : x \in 1..Len(r.values)}
      [] OTHER -> {StrVal(r.rule, <<>>)}

\* What generate_row_value reads of a column: whether the null rule applies
\* ("DEFAULT NULL" in col_type) and the rule that decides the value otherwise.
ColumnPlan(col_name, col_type) ==
    [nullable |-> Nullable(col_type), rule |-> ColumnRule(col_name, col_type)]

\* The values a column of plan p gets in row row_id: None when the type is
\* nullable and random.random() < 0.1, the value of the rule otherwise.
PlanValues(p, row_id) ==
    (IF p.nullable THEN {None} ELSE {}) \cup RuleValues(p.rule, row_id)

\* generate_row_value(table_name, col_name, col_type, row_id): the set of the
\* values it can return
generate_row_value(table_name, col_name, col_type, row_id) ==
    PlanValues(ColumnPlan(col_name, col_type), row_id)

(***************************************************************************)
(* The rendering of a value in a row of an INSERT (write_table_data).      *)
(***************************************************************************)
\* "NULL" for None, str(val) for an int or a float, and the escaped string
\* between single quotes otherwise
RenderValue(val) ==
    IF val.t = "none" THEN [form |-> "NULL", val |-> None]
    ELSE IF val.t \in {"int", "float"} THEN [form |-> "bare", val |-> val]
    ELSE [form |-> "quoted", val |-> [val EXCEPT !.s = escape_sql(val.s)]]

(***************************************************************************)
(* The size controller of generate_dump.                                   *)
(***************************************************************************)
\* the estimated bytes of a row, and the least number of rows of a table
BytesPerRow == 750
MinRowsPerTable == 100

\* The megabyte taken as 1000 * 1000 bytes.
RowsPerTable_decimal_megabyte(target_size_mb) ==
    Max(MinRowsPerTable, ((target_size_mb * 1000 * 1000) \div NumTables) \div BytesPerRow)

\* max(100, (target_bytes // len(TABLE_DEFINITIONS)) // 750),
\* with target_bytes = target_size_mb * 1024 * 1024
RowsPerTable(target_size_mb) ==
    Max(MinRowsPerTable, ((target_size_mb * 1024 * 1024) \div NumTables) \div BytesPerRow)

(***************************************************************************)
(* The tables write_table_data is run on: those of the catalog, and each   *)
(* of them with an insert_batch_size of 1 .. MaxBatch.                     *)
(***************************************************************************)
Tables ==
    TABLE_DEFINITIONS \o
    [j \in 1..(NumTables * MaxBatch) |->
        [TABLE_DEFINITIONS[((j - 1) % NumTables) + 1]
            EXCEPT !.insert_batch_size = ((j - 1) \div NumTables) + 1]]

\* ColumnPlan of every column of every table, computed once
TablePlans ==
    [j \in 1..Len(Tables) |->
        [c \in 1..Len(Tables[j].columns) |->
            ColumnPlan(Tables[j].columns[c][1], Tables[j].columns[c][2])]]

(***************************************************************************)
(* The state.                                                              *)
(*   call          the call the run makes, with its arguments              *)
(*   ret           the value a call of escape_sql or generate_row_value    *)
(*                 returned                                                *)
(*   pc            the position of the run in the code                     *)
(*   rows_per_table  generate_dump's rows_per_table                        *)
(*   fstate, opens the output file handle: "unopened", "open" or "closed", *)
(*                 and the number of times open() returned a handle        *)
(*   error         an exception was raised and is propagating              *)
(*   file          the output file: the f.write calls that succeeded, in   *)
(*                 order, each [k: what was written, t: the table it is    *)
(*                 for, n: the number of rows it holds]                    *)
(*   k             the index of generate_dump's loops over the catalog     *)
(*   td, num_rows  write_table_data's table_def (an index of Tables) and   *)
(*                 num_rows                                                *)
(*   rows_written, current_batch, i, row_id   write_table_data's locals    *)
(*   ci            the index of the column the inner loop is at            *)
(*   values        the values of the row being built (its first value is   *)
(*                 kept: the others are looked at as they are rendered)    *)
(*   row_strs      the rows of the batch being built, each stood for by    *)
(*                 its first rendered value                                *)
(*   gen           the table, column and row of the last generate_row_value  *)
(*                 call                                                    *)
(*   val, rendered what that call returned and what was appended for it    *)
(***************************************************************************)
VARIABLES call, ret, pc, rows_per_table, fstate, opens, error, file, k,
          td, num_rows, rows_written, current_batch, i, row_id, ci,
          values, row_strs, gen, val, rendered

vars == <<call, ret, pc, rows_per_table, fstate, opens, error, file, k,
          td, num_rows, rows_written, current_batch, i, row_id, ci,
          values, row_strs, gen, val, rendered>>

handle == <<fstate, opens, error>>
driver == <<rows_per_table, k>>
table_args == <<td, num_rows>>
row_locals == <<i, row_id, ci, values, row_strs, gen, val, rendered>>
batch_locals == <<rows_written, current_batch>>

NoRender == [form |-> "none", val |-> None]

\* Every variable but call, pc and the file handle, before anything ran.
InitLocals ==
    /\ ret = None
    /\ rows_per_table = 0
    /\ error = FALSE
    /\ file = <<>>
    /\ k = 0
    /\ rows_written = 0
    /\ current_batch = 0
    /\ i = 0
    /\ row_id = 0
    /\ ci = 0
    /\ values = <<>>
    /\ row_strs = <<>>
    /\ gen = [td |-> 0, col |-> 0, row_id |-> 0]
    /\ val = None
    /\ rendered = NoRender

Entry(kind, t, n) == [k |-> kind, t |-> t, n |-> n]

(***************************************************************************)
(* The file handle.                                                        *)
(***************************************************************************)
\* A handle closed on the normal exit alone, as without the `with` block.
WithExit_leaks_on_error(state, raised) == IF raised THEN state ELSE "closed"

\* The exit of `with open(...) as f`: the handle is closed, whether the block
\* ended or raised.
WithExit(state, raised) == "closed"

\* The f.write calls of `entries` all succeed.
WriteOk(entries) ==
    /\ file' = file \o entries
    /\ UNCHANGED handle

\* One of the f.write calls of `entries` raises: what the calls before it
\* wrote is in the file, the exception leaves every function on the stack
\* and, under generate_dump, the `with` block, which closes the handle.
WriteFails(entries) ==
    \E m \in 0..(Len(entries) - 1) :
        /\ file' = file \o SubSeq(entries, 1, m)
        /\ error' = TRUE
        /\ pc' = "raised"
        /\ fstate' = IF call.fn = "generate_dump" THEN WithExit(fstate, TRUE)
                     ELSE fstate
        /\ opens' = opens

(***************************************************************************)
(* generate_dump                                                           *)
(***************************************************************************)
\* target_bytes and rows_per_table
generate_dump_begin ==
    /\ pc = "gd_start"
    /\ rows_per_table' = RowsPerTable(call.target_size_mb)
    /\ pc' = "gd_open"
    /\ UNCHANGED <<call, ret, handle, file, k, table_args, batch_locals, row_locals>>

\* open(output_file, 'w'): a handle on the emptied file, or an exception
open_output ==
    /\ pc = "gd_open"
    /\ \/ /\ fstate' = "open"
          /\ opens' = opens + 1
          /\ file' = <<>>
          /\ pc' = "gd_header"
          /\ UNCHANGED error
       \/ /\ error' = TRUE
          /\ pc' = "raised"
          /\ UNCHANGED <<fstate, opens, file>>
    /\ UNCHANGED <<call, ret, driver, table_args, batch_locals, row_locals>>

\* write_header(f), then the first loop starts
write_header ==
    /\ pc = "gd_header"
    /\ LET entries == <<Entry("header", "", 0)>>
       IN  \/ /\ WriteOk(entries)
              /\ k' = 1
              /\ pc' = "gd_structure"
           \/ /\ WriteFails(entries)
              /\ UNCHANGED k
    /\ UNCHANGED <<call, ret, rows_per_table, table_args, batch_locals, row_locals>>

\* The first loop left after its first table.
StructureLoopDone_after_first(j) == j > 1

\* `for table_def in TABLE_DEFINITIONS` has no table left at index j
StructureLoopDone(j) == j > NumTables

\* write_table_structure(f, table_def) for the k-th table: the block's head,
\* the column definitions and the two closing lines
write_table_structure ==
    /\ pc = "gd_structure"
    /\ LET name == TABLE_DEFINITIONS[k].name
           entries == <<Entry("structure_head", name, 0),
                        Entry("structure_columns", name, 0),
                        Entry("structure_engine", name, 0),
                        Entry("structure_end", name, 0)>>
       IN  \/ /\ WriteOk(entries)
              /\ IF StructureLoopDone(k + 1)
                 THEN k' = 1 /\ pc' = "gd_data"
                 ELSE k' = k + 1 /\ pc' = "gd_structure"
           \/ /\ WriteFails(entries)
              /\ UNCHANGED k
    /\ UNCHANGED <<call, ret, rows_per_table, table_args, batch_locals, row_locals>>

\* the second loop calls write_table_data(f, table_def, rows_per_table)
generate_dump_data ==
    /\ pc = "gd_data"
    /\ k <= NumTables
    /\ td' = k
    /\ num_rows' = rows_per_table
    /\ pc' = "wtd_begin"
    /\ UNCHANGED <<call, ret, handle, file, driver, batch_locals, row_locals>>

\* write_table_data returned to the second loop
write_table_data_return ==
    /\ pc = "wtd_return"
    /\ call.fn = "generate_dump"
    /\ k' = k + 1
    /\ pc' = "gd_data"
    /\ UNCHANGED <<call, ret, handle, file, rows_per_table, table_args,
                   batch_locals, row_locals>>

\* write_footer(f), after the second loop
write_footer ==
    /\ pc = "gd_data"
    /\ k > NumTables
    /\ LET entries == <<Entry("footer", "", 0)>>
       IN  \/ /\ WriteOk(entries)
              /\ pc' = "gd_exit"
           \/ WriteFails(entries)
    /\ UNCHANGED <<call, ret, driver, table_args, batch_locals, row_locals>>

\* the `with` block ends; os.path.getsize and the return
close_output ==
    /\ pc = "gd_exit"
    /\ fstate' = WithExit(fstate, FALSE)
    /\ pc' = "done"
    /\ UNCHANGED <<call, ret, opens, error, file, driver, table_args,
                   batch_locals, row_locals>>

(***************************************************************************)
(* write_table_data                                                        *)
(***************************************************************************)
table_def == Tables[td]
columns == table_def.columns
batch_size == table_def.insert_batch_size

\* The batch never cut to the rows that remain.
CurrentBatch_untruncated(size, remaining) == size

\* current_batch = min(batch_size, remaining)
CurrentBatch(size, remaining) == Min(size, remaining)

\* The row number counted from the start of the batch.
RowId_per_batch(written, j) == j + 1

\* row_id = rows_written + i + 1
RowId(written, j) == written + j + 1

\* the head of the data block; rows_written = 0
write_table_data_begin ==
    /\ pc = "wtd_begin"
    /\ LET entries == <<Entry("data_head", table_def.name, 0)>>
       IN  \/ /\ WriteOk(entries)
              /\ rows_written' = 0
              /\ pc' = "wtd_loop"
           \/ /\ WriteFails(entries)
              /\ UNCHANGED rows_written
    /\ UNCHANGED <<call, ret, driver, table_args, current_batch, row_locals>>

\* `while rows_written < num_rows`: the size of the batch, the INSERT line,
\* and the first row of `for i in range(current_batch)`
write_insert_line ==
    /\ pc = "wtd_loop"
    /\ rows_written < num_rows
    /\ LET batch == CurrentBatch(batch_size, num_rows - rows_written)
           entries == <<Entry("insert", table_def.name, 0)>>
       IN  \/ /\ WriteOk(entries)
              /\ current_batch' = batch
              /\ row_strs' = <<>>
              /\ i' = 0
              /\ values' = <<>>
              /\ IF batch > 0
                 THEN row_id' = RowId(rows_written, 0) /\ ci' = 1 /\ pc' = "wtd_val"
                 ELSE UNCHANGED <<row_id, ci>> /\ pc' = "wtd_rows"
           \/ /\ WriteFails(entries)
              /\ UNCHANGED <<current_batch, row_strs, i, values, row_id, ci>>
    /\ UNCHANGED <<call, ret, driver, table_args, rows_written, gen, val, rendered>>

\* one turn of `for col_name, col_type in columns`: the value, its rendering,
\* values.append; after the last column row_strs.append and the next row
generate_value ==
    /\ pc = "wtd_val"
    /\ \E v \in PlanValues(TablePlans[td][ci], row_id) :
          LET r == RenderValue(v)
              first == IF ci = 1 THEN r ELSE values[1]
          IN  /\ val' = v
              /\ rendered' = r
              /\ gen' = [td |-> td, col |-> ci, row_id |-> row_id]
              /\ IF ci < Len(columns)
                 THEN /\ values' = <<first>>
                      /\ ci' = ci + 1
                      /\ UNCHANGED <<row_strs, i, row_id, pc>>
                 ELSE /\ row_strs' = Append(row_strs, first)
                      /\ i' = i + 1
                      /\ values' = <<>>
                      /\ ci' = 1
                      /\ IF i + 1 < current_batch
                         THEN row_id' = RowId(rows_written, i + 1) /\ pc' = "wtd_val"
                         ELSE UNCHANGED row_id /\ pc' = "wtd_rows"
    /\ UNCHANGED <<call, ret, handle, file, driver, table_args, batch_locals>>

\* the rows of the batch joined, then ";\n"; rows_written += current_batch
write_rows ==
    /\ pc = "wtd_rows"
    /\ LET entries == <<Entry("rows", table_def.name, Len(row_strs)),
                        Entry("insert_end", table_def.name, 0)>>
       IN  \/ /\ WriteOk(entries)
              /\ rows_written' = rows_written + current_batch
              /\ pc' = "wtd_loop"
           \/ /\ WriteFails(entries)
              /\ UNCHANGED rows_written
    /\ UNCHANGED <<call, ret, driver, table_args, current_batch, row_locals>>

\* the loop is left: the two closing lines of the data block, and the return
write_table_data_end ==
    /\ pc = "wtd_loop"
    /\ ~(rows_written < num_rows)
    /\ LET entries == <<Entry("enable_keys", table_def.name, 0),
                        Entry("unlock", table_def.name, 0)>>
       IN  \/ /\ WriteOk(entries)
              /\ pc' = "wtd_return"
           \/ WriteFails(entries)
    /\ UNCHANGED <<call, ret, driver, table_args, batch_locals, row_locals>>

write_table_data ==
    \/ write_table_data_begin
    \/ write_insert_line
    \/ generate_value
    \/ write_rows
    \/ write_table_data_end

(***************************************************************************)
(* Specifications.                                                         *)
(***************************************************************************)
\* A run of generate_dump(output_file, target_size_mb).
Init ==
    /\ call \in {[fn |-> "generate_dump", target_size_mb |-> s] : s \in 0..MaxSizeMb}
    /\ pc = "gd_start"
    /\ fstate = "unopened"
    /\ opens = 0
    /\ td = 0
    /\ num_rows = 0
    /\ InitLocals

Next ==
    \/ generate_dump_begin
    \/ open_output
    \/ write_header
    \/ write_table_structure
    \/ generate_dump_data
    \/ write_table_data_begin
    \/ write_insert_line
    \/ generate_value
    \/ write_rows
    \/ write_table_data_end
    \/ write_table_data_return
    \/ write_footer
    \/ close_output

Spec == Init /\ [][Next]_vars

\* The run is over: it returned or raised.
Terminated == pc \in {"done", "raised"}

\* A call of write_table_data(f, table_def, num_rows) on an open handle, for
\* every table of Tables and 0 .. MaxRows rows, and for every table of the
\* catalog and ExampleRows rows.
TableCalls ==
    {[fn |-> "write_table_data", table_def |-> j, num_rows |-> n] :
        j \in 1..Len(Tables), n \in 0..MaxRows}
    \cup {[fn |-> "write_table_data", table_def |-> j, num_rows |-> ExampleRows] :
        j \in 1..NumTables}

InitTable ==
    /\ call \in TableCalls
    /\ pc = "wtd_begin"
    /\ fstate = "open"
    /\ opens = 1
    /\ td = call.table_def
    /\ num_rows = call.num_rows
    /\ InitLocals

NextTable ==
    \/ write_table_data_begin
    \/ write_insert_line
    \/ generate_value
    \/ write_rows
    \/ write_table_data_end

SpecTable == InitTable /\ [][NextTable]_vars

\* The size computation of generate_dump alone, for target_size_mb in
\* 0 .. MaxSizeArg.
InitSize ==
    /\ call \in {[fn |-> "generate_dump", target_size_mb |-> s] : s \in 0..MaxSizeArg}
    /\ pc = "gd_start"
    /\ fstate = "unopened"
    /\ opens = 0
    /\ td = 0
    /\ num_rows = 0
    /\ InitLocals

SpecSize == InitSize /\ [][generate_dump_begin]_vars

(***************************************************************************)
(* Calls of generate_row_value and of escape_sql on their own.             *)
(***************************************************************************)
\* The columns generate_row_value is called on: those of the catalog, and
\* columns whose names and types meet several rules at once.
CatalogColumns ==
    UNION {{TABLE_DEFINITIONS[j].columns[c] : c \in 1..Len(TABLE_DEFINITIONS[j].columns)} :
              j \in 1..NumTables}

TestColumns ==
    { (* email_id : bigint unsigned NOT NULL *)
      << <<"e","m","a","i","l","_","i","d">>,
         <<"b","i","g","i","n","t"," ","u","n","s","i","g","n","e","d"," ","N","O","T"," ","N","U","L","L">> >>,
      (* email_id : bigint unsigned DEFAULT NULL *)
      << <<"e","m","a","i","l","_","i","d">>,
         <<"b","i","g","i","n","t"," ","u","n","s","i","g","n","e","d"," ","D","E","F","A","U","L","T"," ","N","U","L","L">> >>,
      (* currency_id : char(3) NOT NULL *)
      << <<"c","u","r","r","e","n","c","y","_","i","d">>,
         <<"c","h","a","r","(","3",")"," ","N","O","T"," ","N","U","L","L">> >>,
      (* first_name : varchar(50) NOT NULL *)
      << <<"f","i","r","s","t","_","n","a","m","e">>,
         <<"v","a","r","c","h","a","r","(","5","0",")"," ","N","O","T"," ","N","U","L","L">> >>,
      (* last_name : varchar(50) NOT NULL *)
      << <<"l","a","s","t","_","n","a","m","e">>,
         <<"v","a","r","c","h","a","r","(","5","0",")"," ","N","O","T"," ","N","U","L","L">> >>,
      (* status_id : enum('draft','published','archived') NOT NULL *)
      << <<"s","t","a","t","u","s","_","i","d">>,
         <<"e","n","u","m","(","'","d","r","a","f","t","'",",","'","p","u","b","l","i","s","h","e","d","'",",","'","a","r","c","h","i","v","e","d","'",")"," ","N","O","T"," ","N","U","L","L">> >>,
      (* status : enum('draft','published','archived') DEFAULT NULL *)
      << <<"s","t","a","t","u","s">>,
         <<"e","n","u","m","(","'","d","r","a","f","t","'",",","'","p","u","b","l","i","s","h","e","d","'",",","'","a","r","c","h","i","v","e","d","'",")"," ","D","E","F","A","U","L","T"," ","N","U","L","L">> >>,
      (* state : enum('open','closed') NOT NULL *)
      << <<"s","t","a","t","e">>,
         <<"e","n","u","m","(","'","o","p","e","n","'",",","'","c","l","o","s","e","d","'",")"," ","N","O","T"," ","N","U","L","L">> >>,
      (* level : enum('Low','High') NOT NULL *)
      << <<"l","e","v","e","l">>,
         <<"e","n","u","m","(","'","L","o","w","'",",","'","H","i","g","h","'",")"," ","N","O","T"," ","N","U","L","L">> >>,
      (* kind : enum('internal','external') NOT NULL *)
      << <<"k","i","n","d">>,
         <<"e","n","u","m","(","'","i","n","t","e","r","n","a","l","'",",","'","e","x","t","e","r","n","a","l","'",")"," ","N","O","T"," ","N","U","L","L">> >> }

InitGen ==
    /\ call \in {[fn |-> "generate_row_value", col_name |-> col[1], col_type |-> col[2],
                  row_id |-> r] : col \in CatalogColumns \cup TestColumns, r \in 1..MaxRowId}
    /\ pc = "grv_call"
    /\ fstate = "unopened"
    /\ opens = 0
    /\ td = 0
    /\ num_rows = 0
    /\ InitLocals

\* val = generate_row_value(name, col_name, col_type, row_id)
generate_row_value_call ==
    /\ pc = "grv_call"
    /\ ret' \in generate_row_value("", call.col_name, call.col_type, call.row_id)
    /\ pc' = "grv_return"
    /\ UNCHANGED <<call, rows_per_table, handle, file, k, table_args, batch_locals,
                   row_locals>>

SpecGen == InitGen /\ [][generate_row_value_call]_vars

\* The characters of the strings escape_sql is called on: the four it
\* replaces, and two it leaves alone (the letters of its escapes).
EscapeAlphabet == {"\\", "'", "\n", "\r", "n", "r"}

InitEscape ==
    /\ call \in {[fn |-> "escape_sql", s |-> s] :
                    s \in UNION {[1..n -> EscapeAlphabet] : n \in 0..MaxStrLen}}
    /\ pc = "esc_call"
    /\ fstate = "unopened"
    /\ opens = 0
    /\ td = 0
    /\ num_rows = 0
    /\ InitLocals

\* escape_sql(val)
escape_sql_call ==
    /\ pc = "esc_call"
    /\ ret' = escape_sql(call.s)
    /\ pc' = "esc_return"
    /\ UNCHANGED <<call, rows_per_table, handle, file, k, table_args, batch_locals,
                   row_locals>>

SpecEscape == InitEscape /\ [][escape_sql_call]_vars

(***************************************************************************)
(* What the properties below read of the state.                            *)
(***************************************************************************)
RECURSIVE SumRows(_)
SumRows(entries) ==
    IF entries = <<>> THEN 0 ELSE Head(entries).n + SumRows(Tail(entries))

\* The row lists written so far for table `name`, one per INSERT.
IsRowsOf(name, e) == e.k = "rows" /\ e.t = name
Batches(name) == SelectSeq(file, LAMBDA e : IsRowsOf(name, e))

\* The tables whose primary key is the auto-incrementing `id` column.
AutoIncrementTables ==
    {j \in 1..Len(Tables) :
        /\ Tables[j].primary_key = <<"i","d">>
        /\ \E c \in 1..Len(Tables[j].columns) :
              /\ Tables[j].columns[c][1] = <<"i","d">>
              /\ c = 1
              /\ Contains(Tables[j].columns[c][2],
                          <<"A","U","T","O","_","I","N","C","R","E","M","E","N","T">>)}

\* The declared type starts with one of the numeric type names.
NumericTypeNames ==
    {<<"t","i","n","y","i","n","t">>, <<"i","n","t">>, <<"b","i","g","i","n","t">>,
     <<"d","e","c","i","m","a","l">>}
DeclaredNumeric(col_type) ==
    \E w \in NumericTypeNames :
        /\ IsAt(col_type, w, 1)
        /\ (Len(col_type) > Len(w) => col_type[Len(w) + 1] \in {" ", "("})

\* The column the last generate_row_value call was for.
GenColumn == Tables[gen.td].columns[gen.col]

(***************************************************************************)
(* C1  write_table_data emits exactly num_rows rows: every INSERT holds    *)
(* between 1 and insert_batch_size rows, every INSERT but the last holds   *)
(* exactly insert_batch_size rows, rows_written never exceeds num_rows,    *)
(* and when the function returns rows_written and the rows of all its      *)
(* INSERTs both equal num_rows (so the last INSERT holds the rest).        *)
(***************************************************************************)
C1_BatchesSumToNumRows ==
    LET B == Batches(table_def.name)
    IN  /\ rows_written <= num_rows
        /\ SumRows(B) <= num_rows
        /\ \A j \in 1..Len(B) : B[j].n >= 1 /\ B[j].n <= batch_size
        /\ \A j \in 1..(Len(B) - 1) : B[j].n = batch_size
        /\ pc = "wtd_return" => rows_written = num_rows /\ SumRows(B) = num_rows

\* 130 rows of table users (batch size 50) were written as 50, 50, 30
C1_Witness ==
    /\ pc = "wtd_return"
    /\ table_def.name = "users"
    /\ num_rows = 130
    /\ [j \in 1..Len(Batches("users")) |-> Batches("users")[j].n] = <<50, 50, 30>>

(***************************************************************************)
(* C2  In a table whose primary key is the auto-incrementing id, the id    *)
(* written for the N-th row of the table, counted over all its INSERTs, is *)
(* the bare number N: for the rows of the batch being built, N is the rows *)
(* already in the file for the table plus the place of the row in the      *)
(* batch.                                                                  *)
(***************************************************************************)
C2_IdIsRowNumber ==
    (pc \in {"wtd_val", "wtd_rows"} /\ td \in AutoIncrementTables) =>
        \E before \in {SumRows(Batches(table_def.name))} :
            /\ \A j \in 1..Len(row_strs) :
                  /\ row_strs[j].form = "bare"
                  /\ row_strs[j].val.t = "int"
                  /\ row_strs[j].val.n = before + j
            /\ values # <<>> =>
                  /\ values[1].form = "bare"
                  /\ values[1].val.t = "int"
                  /\ values[1].val.n = before + Len(row_strs) + 1

\* a batch after the first is complete, and its first id continues the count
C2_Witness ==
    /\ pc = "wtd_rows"
    /\ td \in AutoIncrementTables
    /\ rows_written > 0
    /\ Len(row_strs) > 1
    /\ row_strs[1].val.n = rows_written + 1

(***************************************************************************)
(* C3  The writes of generate_dump are ordered: the header first, then the *)
(* schema block of every table in catalog order, then the data block of    *)
(* every table in catalog order, then the footer; a data block is written  *)
(* only after the schema blocks of all tables are complete, and a run that *)
(* returns has written every block and ends with the footer.               *)
(***************************************************************************)
TableNames == {TABLE_DEFINITIONS[j].name : j \in 1..NumTables}
TableIndex ==
    [name \in TableNames |-> CHOOSE j \in 1..NumTables : TABLE_DEFINITIONS[j].name = name]
StructureKinds ==
    {"structure_head", "structure_columns", "structure_engine", "structure_end"}
DataKinds == {"data_head", "insert", "rows", "insert_end", "enable_keys", "unlock"}
Rank(e) ==
    CASE e.k = "header" -> 0
      [] e.k \in StructureKinds -> TableIndex[e.t]
      [] e.k \in DataKinds -> NumTables + TableIndex[e.t]
      [] e.k = "footer" -> 2 * NumTables + 1
Count(kind) == Cardinality({p \in 1..Len(file) : file[p].k = kind})

C3_SchemaBeforeDataInCatalogOrder ==
    /\ file # <<>> => file[1].k = "header"
    /\ \A p \in 1..(Len(file) - 1) : Rank(file[p]) <= Rank(file[p + 1])
    /\ Count("header") <= 1
    /\ (\E p \in 1..Len(file) : file[p].k \in DataKinds) =>
          Count("structure_end") = NumTables
    /\ pc = "done" =>
          /\ file[Len(file)].k = "footer"
          /\ Count("footer") = 1
          /\ Count("structure_head") = NumTables
          /\ Count("data_head") = NumTables
          /\ Count("unlock") = NumTables

\* a run returned
C3_Witness ==
    /\ pc = "done"
    /\ Count("rows") > NumTables

(***************************************************************************)
(* C4  A value written in an INSERT is NULL for None, a bare numeral when  *)
(* the declared type of its column is numeric (tinyint, int, bigint,       *)
(* decimal) and a quoted string for every other column.                    *)
(***************************************************************************)
C4_RenderingFollowsDeclaredType ==
    gen.col # 0 =>
        /\ val.t = "none" <=> rendered.form = "NULL"
        /\ (val.t # "none" /\ DeclaredNumeric(GenColumn[2])) => rendered.form = "bare"
        /\ (val.t # "none" /\ ~DeclaredNumeric(GenColumn[2])) => rendered.form = "quoted"

(***************************************************************************)
(* C5  The output of escape_sql holds no raw newline or carriage return,   *)
(* splits from left to right into ordinary characters and the escapes      *)
(* \\, \', \n, \r (no quote and no backslash stands alone), and decoding   *)
(* the escapes gives back the input.                                       *)
(***************************************************************************)
RECURSIVE WellEscaped(_)
WellEscaped(s) ==
    IF s = <<>> THEN TRUE
    ELSE IF s[1] = "\\"
    THEN /\ Len(s) >= 2
         /\ s[2] \in {"\\", "'", "n", "r"}
         /\ WellEscaped(SubSeq(s, 3, Len(s)))
    ELSE s[1] \notin {"'", "\n", "\r"} /\ WellEscaped(Tail(s))

RECURSIVE Unescape(_)
Unescape(s) ==
    IF s = <<>> THEN <<>>
    ELSE IF s[1] = "\\" /\ Len(s) >= 2
    THEN <<CASE s[2] = "n" -> "\n" [] s[2] = "r" -> "\r" [] OTHER -> s[2]>>
             \o Unescape(SubSeq(s, 3, Len(s)))
    ELSE <<s[1]>> \o Unescape(Tail(s))

C5_EscapedStringIsValidAndDecodes ==
    pc = "esc_return" =>
        /\ \A p \in 1..Len(ret) : ret[p] \notin {"\n", "\r"}
        /\ WellEscaped(ret)
        /\ Unescape(ret) = call.s

\* a backslash before the letter n, then a quote: \n' becomes \\n\'
C5_Witness ==
    /\ pc = "esc_return"
    /\ call.s = <<"\\", "n", "'">>
    /\ ret = <<"\\", "\\", "n", "\\", "'">>

(***************************************************************************)
(* C6  For a column whose declared type is an enum, generate_row_value     *)
(* returns one of the literals the type declares, whatever the column      *)
(* name, the row and the draws.                                            *)
(***************************************************************************)
EnumDeclarations ==
    { (* enum('draft','published','archived') *)
      << <<"e","n","u","m","(","'","d","r","a","f","t","'",",","'","p","u","b","l","i","s","h","e","d","'",",","'","a","r","c","h","i","v","e","d","'",")">>,
         {<<"d","r","a","f","t">>, <<"p","u","b","l","i","s","h","e","d">>,
          <<"a","r","c","h","i","v","e","d">>} >>,
      (* enum('pending','processing','shipped','delivered','cancelled') *)
      << <<"e","n","u","m","(","'","p","e","n","d","i","n","g","'",",","'","p","r","o","c","e","s","s","i","n","g","'",",","'","s","h","i","p","p","e","d","'",",","'","d","e","l","i","v","e","r","e","d","'",",","'","c","a","n","c","e","l","l","e","d","'",")">>,
         {<<"p","e","n","d","i","n","g">>, <<"p","r","o","c","e","s","s","i","n","g">>,
          <<"s","h","i","p","p","e","d">>, <<"d","e","l","i","v","e","r","e","d">>,
          <<"c","a","n","c","e","l","l","e","d">>} >>,
      (* enum('open','closed') *)
      << <<"e","n","u","m","(","'","o","p","e","n","'",",","'","c","l","o","s","e","d","'",")">>,
         {<<"o","p","e","n">>, <<"c","l","o","s","e","d">>} >>,
      (* enum('Low','High') *)
      << <<"e","n","u","m","(","'","L","o","w","'",",","'","H","i","g","h","'",")">>,
         {<<"L","o","w">>, <<"H","i","g","h">>} >>,
      (* enum('internal','external') *)
      << <<"e","n","u","m","(","'","i","n","t","e","r","n","a","l","'",",","'","e","x","t","e","r","n","a","l","'",")">>,
         {<<"i","n","t","e","r","n","a","l">>, <<"e","x","t","e","r","n","a","l">>} >> }

IsEnumType(col_type) == IsAt(col_type, <<"e","n","u","m","(">>, 1)

\* The literals the type declares.
DeclaredLiterals(col_type) ==
    UNION {d[2] : d \in {e \in EnumDeclarations : IsAt(col_type, e[1], 1)}}

ReturnsDeclaredLiteral ==
    /\ ret.t = "str"
    /\ ret.s \in DeclaredLiterals(call.col_type)

NoEarlierRule(col_name, col_type) ==
    LET col_lower == Lower(col_name)
        type_lower == Lower(col_type)
    IN  /\ ~Contains(col_type, <<"D","E","F","A","U","L","T"," ","N","U","L","L">>)
        /\ ~(/\ col_name = <<"i","d">>
             /\ Contains(type_lower, <<"a","u","t","o","_","i","n","c","r","e","m","e","n","t">>))
        /\ ~EndsWith(col_name, <<"_","i","d">>)
        /\ ~EndsWith(col_lower, <<"_","a","t">>)
        /\ \A w \in {<<"e","m","a","i","l">>, <<"u","r","l">>, <<"i","p">>} :
              ~Contains(col_lower, w)
        /\ col_lower \notin {<<"n","a","m","e">>, <<"a","u","t","h","o","r","_","n","a","m","e">>,
                             <<"f","i","r","s","t","_","n","a","m","e">>,
                             <<"l","a","s","t","_","n","a","m","e">>}
        /\ \A w \in {<<"d","a","t","e","t","i","m","e">>, <<"t","i","n","y","i","n","t">>,
                     <<"j","s","o","n">>, <<"d","e","c","i","m","a","l">>, <<"i","n","t">>} :
              ~Contains(type_lower, w)

ReturnsDeclaredLiteralLowered ==
    /\ ret.t = "str"
    /\ ret.s \in {Lower(l) : l \in DeclaredLiterals(call.col_type)}

C7_RowsPerTableIsFlooredQuotient ==
    pc = "gd_open" =>
        LET bytes == call.target_size_mb * 1024 * 1024
            per_row == NumTables * 750
        IN  /\ rows_per_table >= 100
            /\ bytes < (rows_per_table + 1) * per_row
            /\ rows_per_table > 100 => rows_per_table * per_row <= bytes

\* 7 megabytes give 978 rows: 7340032 // 10 = 734003, 734003 // 750 = 978
C7_Witness ==
    /\ pc = "gd_open"
    /\ call.target_size_mb = 7
    /\ rows_per_table = 978

(***************************************************************************)
(* C8  The output handle is opened at most once, exactly once in a run     *)
(* that writes or returns; it is closed when the run has returned and when *)
(* a write has raised; once an exception propagates nothing more is        *)
(* written and nothing runs again; the file only grows while the handle is *)
(* the same, so what was written before the error stays.                   *)
(***************************************************************************)
IsPrefix(s, t) == Len(s) <= Len(t) /\ SubSeq(t, 1, Len(s)) = s

HandleState ==
    /\ opens <= 1
    /\ fstate # "unopened" <=> opens = 1
    /\ file # <<>> => opens = 1
    /\ error => pc = "raised"
    /\ Terminated => fstate # "open"
    /\ pc = "done" => fstate = "closed" /\ opens = 1 /\ ~error

HandleStep ==
    /\ error => file' = file /\ pc' = pc /\ fstate' = fstate
    /\ opens' = opens => IsPrefix(file, file')
    /\ (error' /\ opens = 1) => fstate' = "closed"

C8_HandleClosedOnEveryExit == [](HandleState) /\ [][HandleStep]_vars

\* a write of a data batch raised: rows of earlier batches are in the file
\* and the handle is closed
C8_Witness ==
    /\ pc = "raised"
    /\ error
    /\ fstate = "closed"
    /\ Count("rows") > 0
    /\ file[Len(file)].k = "insert"

(***************************************************************************)
(* C9  For a column whose name ends with _id and that is not the           *)
(* auto-increment id, generate_row_value for row N returns None, and only  *)
(* when the type has DEFAULT NULL, or an int v with                        *)
(* 1 <= v <= max(1, N div 2), hence v <= N; also when a later rule matches *)
(* the name (email_id).                                                    *)
(***************************************************************************)
C9_ForeignKeyWithinEarlierRows ==
    ( /\ pc = "grv_return"
      /\ EndsWith(call.col_name, <<"_","i","d">>) )
    => \/ /\ ret = None
          /\ Contains(call.col_type, <<"D","E","F","A","U","L","T"," ","N","U","L","L">>)
       \/ /\ ret.t = "int"
          /\ 1 <= ret.n
          /\ 2 * ret.n <= Max(2, call.row_id)
          /\ ret.n <= call.row_id

\* email_id of row 9 got 4
C9_Witness ==
    /\ pc = "grv_return"
    /\ call.col_name = <<"e","m","a","i","l","_","i","d">>
    /\ call.row_id = 9
    /\ ret.t = "int"
    /\ ret.n = 4

(***************************************************************************)
(* C10  generate_row_value returns None only for a type with DEFAULT NULL, *)
(* and NULL is written only for None: no column of the catalog declared    *)
(* NOT NULL and no primary-key column is written as NULL.                  *)
(***************************************************************************)
C10_NullOnlyForDefaultNull ==
    gen.col # 0 =>
        /\ val = None =>
              Contains(GenColumn[2], <<"D","E","F","A","U","L","T"," ","N","U","L","L">>)
        /\ rendered.form = "NULL" =>
              /\ val = None
              /\ ~Contains(GenColumn[2], <<"N","O","T"," ","N","U","L","L">>)
              /\ GenColumn[1] # Tables[gen.td].primary_key

\* a nullable column of a row after the first batch of its table was written
\* as NULL
C10_Witness ==
    /\ gen.col # 0
    /\ rendered.form = "NULL"
    /\ rows_written > 0
====
